---- MODULE Spec2Model ----
(***************************************************************************)
(* The car-insurance claim pipeline: data_cleaning.py, metrics_summary.py, *)
(* data_visualization.py and data/app.py, as one state machine.            *)
(*                                                                         *)
(* Every stage is a standalone script run from a working directory; the    *)
(* stages communicate only through CSV files.  One stage runs at a time.   *)
(*                                                                         *)
(* Numbers.  A numeric cell of credit_score or annual_mileage holds the    *)
(* value in quarters (2 stands for 0.5, 4 for 1.0), so that the two        *)
(* successive medians the cleaning stage takes stay exact integers.  The   *)
(* 0/1 codes of vehicle_ownership and claim_status are plain integers.     *)
(* A mean is kept as the exact fraction [sum, count]; count = 0 is NaN.    *)
(* A value rounded to 2 decimals is kept as an integer number of           *)
(* hundredths.                                                             *)
(***************************************************************************)
EXTENDS Integers, Sequences, FiniteSets, TLC

VARIABLES
    fs,                 \* the file system: path -> CSV file, for the files that exist
    proc,               \* the stage that is running: idle, cleaning, metrics, visualization, dashboard
    cwd,                \* the working directory the running stage was started from
    pc,                 \* the position of the running stage in its script
    df,                 \* the running stage's module-level table
    df_raw,             \* data_cleaning.py: the table as loaded
    df_prev,            \* history: df as it was before the last step of the cleaning stage
    validation_issues,  \* data_cleaning.py: the (column, count) list
    log,                \* the levels of the lines the running stage has logged
    exit_status,        \* the exit status of the process, once pc = "exited"
    exit_cause,         \* why the process exited
    outputs             \* what the Aggregator last produced (metrics, grouped breakdowns)
                        \* and, for the record, the table it was given

vars == <<fs, proc, cwd, pc, df, df_raw, df_prev, validation_issues, log,
          exit_status, exit_cause, outputs>>

---------------------------------------------------------------------------
(* Bounds of the model. *)

MaxRows == 3

---------------------------------------------------------------------------
(* Cells.  One shape for every cell, so that any two cells compare. *)

Num(n) == [k |-> "num", n |-> n, s |-> ""]
Str(s) == [k |-> "str", n |-> 0, s |-> s]
NaN == [k |-> "nan", n |-> 0, s |-> ""]

IsNum(x) == x.k = "num"
IsStr(x) == x.k = "str"
IsNaN(x) == x.k = "nan"

\* The value v of the source, in the quarters numeric cells are kept in.
Quarters(v) == 4 * v

---------------------------------------------------------------------------
(* Text conversions, over the texts the bounded inputs hold. *)

\* str.strip().str.lower() of a cell's text.
StripLower(s) ==
    CASE s = " Claim" -> "claim"
      [] s = "Old " -> "old"
      [] OTHER -> s

\* str.strip().str.lower().str.replace(" ", "_") of a column name.
StandardName(s) ==
    CASE s = "OUTCOME" -> "outcome"
      [] s = "Claim Status" -> "claim_status"
      [] OTHER -> s

\* The texts pandas reads as a missing value.
NAStrings == {"", "nan", "NaN", "NA", "N/A", "n/a", "NULL", "null", "None", "<NA>", "#N/A"}

\* The texts that read as a number, and the number each reads as.
NumericTexts == {"0", "1", "2"}
ParseNumber(s) == CASE s = "0" -> 0 [] s = "1" -> 1 [] s = "2" -> 2

\* astype(str) of a cell: a number becomes its text, a missing value the text "nan".
AsTypeStr(x) ==
    CASE IsStr(x) -> x
      [] IsNum(x) -> Str(ToString(x.n))
      [] OTHER -> Str("nan")

---------------------------------------------------------------------------
(* Tables.  A table is [columns, rows]; a row is [idx, c] with c a function *)
(* from the columns to cells, idx the row's index label.                    *)

EmptyTable == [columns |-> {}, rows |-> <<>>]

NRows(d) == Len(d.rows)

Positions(d) == 1..Len(d.rows)

Cell(d, i, col) == d.rows[i].c[col]

\* The column as a sequence of cells.
Column(d, col) == [i \in Positions(d) |-> d.rows[i].c[col]]

\* df[col] = cells, a sequence with one cell per row.
SetColumn(d, col, cells) ==
    [d EXCEPT !.rows = [i \in Positions(d) |->
        [d.rows[i] EXCEPT !.c = [@ EXCEPT ![col] = cells[i]]]]]

\* df.rename(columns={from: to}).
RenameColumn(d, from, to) ==
    LET cols == (d.columns \ {from}) \cup {to}
    IN  [columns |-> cols,
         rows |-> [i \in Positions(d) |->
            [idx |-> d.rows[i].idx,
             c |-> [col \in cols |->
                IF col = to THEN d.rows[i].c[from] ELSE d.rows[i].c[col]]]]]

\* A freshly read column is of object dtype when it holds a text.
IsObjectDtype(d, col) == \E i \in Positions(d) : IsStr(Cell(d, i, col))

NumbersOf(cells) == SelectSeq(cells, IsNum)

RECURSIVE SumNums(_)
SumNums(cells) ==
    IF cells = <<>> THEN 0 ELSE Head(cells).n + SumNums(Tail(cells))

\* Series.median(): over the non-missing values; NaN when there are none.
Median(cells) ==
    LET vals == SortSeq(NumbersOf(cells), LAMBDA a, b : a.n < b.n)
        n == Len(vals)
    IN  IF n = 0 THEN NaN
        ELSE IF n % 2 = 1 THEN vals[(n + 1) \div 2]
        ELSE Num((vals[n \div 2].n + vals[n \div 2 + 1].n) \div 2)

\* Series.mean(): the exact fraction over the non-missing values.
Mean(cells) == [sum |-> SumNums(NumbersOf(cells)), count |-> Len(NumbersOf(cells))]

---------------------------------------------------------------------------
(* CSV files.  A file is [columns, rows]; a row is a function from the     *)
(* columns to fields; a field is the text as written: Num(n) a numeric     *)
(* literal, Str(s) any other text, Str("") the empty field.                 *)

IsNAField(f) == IsStr(f) /\ f.s \in NAStrings

\* pd.read_csv: a column whose fields are all numeric or missing is numeric;
\* any other column is of object dtype and keeps every field as its text.
ReadCsv(file) ==
    LET numeric(col) == \A i \in DOMAIN file.rows :
            IsNum(file.rows[i][col]) \/ IsNAField(file.rows[i][col])
        cell(f, col) ==
            IF IsNAField(f) THEN NaN
            ELSE IF numeric(col) THEN f
            ELSE AsTypeStr(f)
    IN  [columns |-> file.columns,
         rows |-> [i \in DOMAIN file.rows |->
            [idx |-> i - 1,
             c |-> [col \in file.columns |-> cell(file.rows[i][col], col)]]]]

\* df.to_csv(index=False): a missing value is written as the empty field, a
\* text that spells a number is indistinguishable from that number.
ToCsv(d) ==
    LET field(x) ==
            CASE IsNaN(x) -> Str("")
              [] IsStr(x) /\ x.s \in NumericTexts -> Num(ParseNumber(x.s))
              [] OTHER -> x
    IN  [columns |-> d.columns,
         rows |-> [i \in Positions(d) |->
            [col \in d.columns |-> field(d.rows[i].c[col])]]]

---------------------------------------------------------------------------
(* Paths: a path is the sequence of its components. *)

Root == <<>>
DataSubdir == <<"data">>
WorkingDirs == {Root, DataSubdir}

BASE_DIR == cwd
DATA_DIR == BASE_DIR \o <<"data">>
input_file == BASE_DIR \o <<"Car_Insurance_Claim.csv">>
cleaned_file == DATA_DIR \o <<"cleaned_data.csv">>

Exists(path) == path \in DOMAIN fs

WriteFile(path, file) ==
    [p \in DOMAIN fs \cup {path} |-> IF p = path THEN file ELSE fs[p]]

---------------------------------------------------------------------------
(* How a Python process ends. *)

\* raise SystemExit(arg): no argument (None) is status 0, a message is status 1.
SystemExitStatus(arg) == IF arg = "" THEN 0 ELSE 1

\* An exception nobody catches: traceback on stderr, status 1, nothing logged.
UncaughtExceptionStatus == SystemExitStatus("Traceback")

---------------------------------------------------------------------------
(* The raw inputs.  Car_Insurance_Claim.csv holds 1..MaxRows rows; in each  *)
(* input the columns of one scenario vary over their field values and the  *)
(* other columns hold the default.                                          *)

Columns == {"age", "gender", "driving_experience", "vehicle_year",
            "vehicle_ownership", "credit_score", "annual_mileage", "claim_status"}

DefaultField(col) ==
    CASE col = "age" -> Str("young")
      [] col = "gender" -> Str("male")
      [] col = "driving_experience" -> Str("0-9y")
      [] col = "vehicle_year" -> Str("after 2015")
      [] col = "vehicle_ownership" -> Num(1)
      [] col = "credit_score" -> Num(2)
      [] col = "annual_mileage" -> Num(Quarters(1))
      [] col = "claim_status" -> Num(0)

\* credit_score: missing, -0.5, 0.5, 1.5.  annual_mileage: missing, -1, 1, 2.
FieldValues(col) ==
    CASE col = "age" -> {Str("young"), Str("Old "), Str("")}
      [] col = "gender" -> {Str("male"), Str("female")}
      [] col = "driving_experience" -> {Str("0-9y"), Str("10-19y")}
      [] col = "vehicle_year" -> {Str("after 2015"), Str("before 2015")}
      [] col = "vehicle_ownership" -> {Num(0), Num(1), Num(2), Str("owned")}
      [] col = "credit_score" -> {Str(""), Num(-2), Num(2), Num(6)}
      [] col = "annual_mileage" ->
            {Str(""), Num(Quarters(-1)), Num(Quarters(1)), Num(Quarters(2))}
      [] col = "claim_status" -> {Num(0), Num(1), Str(" Claim"), Str("bogus")}

\* A scenario: the columns that vary, each with the fields it varies over.
ScenarioList ==
    << [credit_score |-> FieldValues("credit_score")],
       [annual_mileage |-> FieldValues("annual_mileage")],
       [vehicle_ownership |-> FieldValues("vehicle_ownership")],
       [claim_status |-> FieldValues("claim_status")],
       [age |-> FieldValues("age")],
       [gender |-> FieldValues("gender"),
        driving_experience |-> FieldValues("driving_experience")],
       [vehicle_year |-> FieldValues("vehicle_year")],
       [claim_status |-> {Num(0), Num(1)}, age |-> {Str("young"), Str("")}] >>

ScenarioRows(S) ==
    LET choices == {v \in [DOMAIN S -> UNION {S[col] : col \in DOMAIN S}] :
                        \A col \in DOMAIN S : v[col] \in S[col]}
    IN  {[col \in Columns |-> IF col \in DOMAIN S THEN v[col] ELSE DefaultField(col)] :
            v \in choices}

ScenarioFiles(S) ==
    {[columns |-> Columns, rows |-> rows] :
        rows \in UNION {[1..n -> ScenarioRows(S)] : n \in 1..MaxRows}}

\* The file with the legacy header of the claim column.
LegacyHeader(file) ==
    LET cols == (file.columns \ {"claim_status"}) \cup {"OUTCOME"}
    IN  [columns |-> cols,
         rows |-> [i \in DOMAIN file.rows |->
            [col \in cols |->
                IF col = "OUTCOME" THEN file.rows[i]["claim_status"]
                ELSE file.rows[i][col]]]]

\* The claim_status column 1, 0, 1, "claim", "bogus" of the specification's
\* example, in five rows that differ in annual_mileage.
ExampleClaimStatus == <<Num(1), Num(0), Num(1), Str("claim"), Str("bogus")>>

ExampleFile ==
    [columns |-> Columns,
     rows |-> [i \in 1..Len(ExampleClaimStatus) |->
        [col \in Columns |->
            CASE col = "claim_status" -> ExampleClaimStatus[i]
              [] col = "annual_mileage" -> Num(Quarters(i))
              [] OTHER -> DefaultField(col)]]]

\* The file without the column `col`.
WithoutColumn(file, col) ==
    [columns |-> file.columns \ {col},
     rows |-> [i \in DOMAIN file.rows |->
        [c \in file.columns \ {col} |-> file.rows[i][c]]]]

\* The columns an input may lack.  The columns the scripts read and the model
\* does not carry (speeding_violations, duis, past_accidents) are in every input.
AbsentColumns == {"claim_status", "credit_score", "annual_mileage", "vehicle_ownership"}

RawFiles ==
    UNION {ScenarioFiles(ScenarioList[k]) : k \in DOMAIN ScenarioList}
    \cup {LegacyHeader(f) : f \in ScenarioFiles([vehicle_year |-> FieldValues("vehicle_year")])}
    \cup {ExampleFile}
    \cup {WithoutColumn(f, col) :
            f \in ScenarioFiles([claim_status |-> {Num(0), Num(1)}]), col \in AbsentColumns}

NoOutputs == [by |-> "none"]

Init ==
    /\ \E file \in RawFiles :
            fs = [p \in {Root \o <<"Car_Insurance_Claim.csv">>} |-> file]
    /\ proc = "idle"
    /\ cwd = Root
    /\ pc = "idle"
    /\ df = EmptyTable
    /\ df_raw = EmptyTable
    /\ df_prev = EmptyTable
    /\ validation_issues = <<>>
    /\ log = {}
    /\ exit_status = 0
    /\ exit_cause = "none"
    /\ outputs = NoOutputs

---------------------------------------------------------------------------
(* Starting a stage: the script's setup section (directories, logging).    *)

Stages == {"cleaning", "metrics", "visualization", "dashboard"}

CanStart == proc = "idle" \/ pc = "exited"

\* data_cleaning.py, metrics_summary.py and data_visualization.py log a
\* "started" line before they load; app.py logs nothing before it loads.
StartStage(stage, dir) ==
    /\ CanStart
    /\ proc' = stage
    /\ cwd' = dir
    /\ pc' = "load"
    /\ df' = EmptyTable
    /\ df_raw' = EmptyTable
    /\ df_prev' = EmptyTable
    /\ validation_issues' = <<>>
    /\ log' = IF stage = "dashboard" THEN {} ELSE {"INFO"}
    /\ exit_status' = 0
    /\ exit_cause' = "none"
    /\ outputs' = NoOutputs
    /\ UNCHANGED fs

Start == \E stage \in Stages, dir \in WorkingDirs : StartStage(stage, dir)

\* The process ends with `status`.
Exit(status, cause) ==
    /\ pc' = "exited"
    /\ exit_status' = status
    /\ exit_cause' = cause

---------------------------------------------------------------------------
(* data_cleaning.py *)

At(stage, label) == proc = stage /\ pc = label

\* Section 2: pd.read_csv(input_file), outside any try.
CleanLoad ==
    /\ At("cleaning", "load")
    /\ Exists(input_file)
    /\ df_raw' = ReadCsv(fs[input_file])
    /\ df' = ReadCsv(fs[input_file])
    /\ df_prev' = df
    /\ log' = log \cup {"INFO"}
    /\ pc' = "standardize"
    /\ UNCHANGED <<fs, proc, cwd, validation_issues, exit_status, exit_cause, outputs>>

\* read_csv raises FileNotFoundError and nothing catches it.
CleanLoadFail ==
    /\ At("cleaning", "load")
    /\ ~Exists(input_file)
    /\ Exit(UncaughtExceptionStatus, "load_error")
    /\ UNCHANGED <<fs, proc, cwd, df, df_raw, df_prev, validation_issues, log, outputs>>

\* df.columns = df.columns.str.strip().str.lower().str.replace(" ", "_")
StandardizeNames(d) ==
    LET cols == {StandardName(col) : col \in d.columns}
        raw(name) == CHOOSE col \in d.columns : StandardName(col) = name
    IN  [columns |-> cols,
         rows |-> [i \in Positions(d) |->
            [idx |-> d.rows[i].idx,
             c |-> [name \in cols |-> d.rows[i].c[raw(name)]]]]]

\* Section 3: column standardization and the rename of 'outcome'.
ColumnStandardization(d) ==
    LET named == StandardizeNames(d)
    IN  IF "outcome" \in named.columns
        THEN RenameColumn(named, "outcome", "claim_status")
        ELSE named

CleanStandardize ==
    /\ At("cleaning", "standardize")
    /\ df' = ColumnStandardization(df_raw)
    /\ df_prev' = df
    /\ pc' = "clean_text"
    /\ UNCHANGED <<fs, proc, cwd, df_raw, validation_issues, log, exit_status,
                   exit_cause, outputs>>

\* Section 4: df[col].astype(str).str.strip().str.lower() for every object column.
CleanTextColumns(d) ==
    [d EXCEPT !.rows = [i \in Positions(d) |->
        [d.rows[i] EXCEPT !.c = [col \in d.columns |->
            IF IsObjectDtype(d, col)
            THEN Str(StripLower(AsTypeStr(d.rows[i].c[col]).s))
            ELSE d.rows[i].c[col]]]]]

CleanText ==
    /\ At("cleaning", "clean_text")
    /\ df' = CleanTextColumns(df)
    /\ df_prev' = df
    /\ log' = log \cup {"INFO"}
    /\ pc' = "fill_missing"
    /\ UNCHANGED <<fs, proc, cwd, df_raw, validation_issues, exit_status, exit_cause, outputs>>

\* df[col] = df[col].fillna(df[col].median())
FillNaMedian(d, col) ==
    LET med == Median(Column(d, col))
    IN  SetColumn(d, col, [i \in Positions(d) |->
            IF IsNaN(Cell(d, i, col)) THEN med ELSE Cell(d, i, col)])

\* Section 5: credit_score, then annual_mileage.
HandleMissingValues(d) == FillNaMedian(FillNaMedian(d, "credit_score"), "annual_mileage")

CleanFillMissing ==
    /\ At("cleaning", "fill_missing")
    /\ {"credit_score", "annual_mileage"} \subseteq df.columns
    /\ df' = HandleMissingValues(df)
    /\ df_prev' = df
    /\ pc' = "check_credit"
    /\ UNCHANGED <<fs, proc, cwd, df_raw, validation_issues, log, exit_status,
                   exit_cause, outputs>>

\* df["credit_score"] (line 80) or df["annual_mileage"] (line 81) raises
\* KeyError when the column is absent, and nothing catches it; line 80 has
\* taken effect when it is line 81 that raises.
CleanFillMissingFail ==
    /\ At("cleaning", "fill_missing")
    /\ ~({"credit_score", "annual_mileage"} \subseteq df.columns)
    /\ df' = IF "credit_score" \in df.columns THEN FillNaMedian(df, "credit_score") ELSE df
    /\ df_prev' = df
    /\ Exit(UncaughtExceptionStatus, "key_error")
    /\ UNCHANGED <<fs, proc, cwd, df_raw, validation_issues, log, outputs>>

\* The rows of `rows` at the positions in P, in order (boolean-mask indexing).
RECURSIVE RowsAt(_, _, _)
RowsAt(rows, i, P) ==
    IF i > Len(rows) THEN <<>>
    ELSE (IF i \in P THEN <<rows[i]>> ELSE <<>>) \o RowsAt(rows, i + 1, P)

\* validation_issues.append((col, n)) when the offending selection is not empty.
Collected(issues, col, n) == IF n > 0 THEN Append(issues, <<col, n>>) ELSE issues

\* (df["credit_score"] < 0) | (df["credit_score"] > 1): a comparison with NaN is False.
InvalidCreditScore(x) == IsNum(x) /\ (x.n < Quarters(0) \/ x.n > Quarters(1))

\* Series.clip(0, 1).
Clip01(x) ==
    IF ~IsNum(x) THEN x
    ELSE IF x.n < Quarters(0) THEN Num(Quarters(0))
    ELSE IF x.n > Quarters(1) THEN Num(Quarters(1))
    ELSE x

\* Section 6, credit score range check.
invalid_cs(d) == {i \in Positions(d) : InvalidCreditScore(Cell(d, i, "credit_score"))}

CreditScoreRangeCheck(d) ==
    IF invalid_cs(d) # {}
    THEN SetColumn(d, "credit_score",
                   [i \in Positions(d) |-> Clip01(Cell(d, i, "credit_score"))])
    ELSE d

CleanCheckCredit ==
    /\ At("cleaning", "check_credit")
    /\ df' = CreditScoreRangeCheck(df)
    /\ df_prev' = df
    /\ validation_issues' = Collected(validation_issues, "credit_score",
                                      Cardinality(invalid_cs(df)))
    /\ pc' = "check_mileage"
    /\ UNCHANGED <<fs, proc, cwd, df_raw, log, exit_status, exit_cause, outputs>>

\* df["annual_mileage"] <= 0
InvalidMileage(x) == IsNum(x) /\ x.n <= 0

\* The value line 98 assigns: df["annual_mileage"].median(), the median of the
\* whole column as it stands, offending values included.
MileageReplacement(d) == Median(Column(d, "annual_mileage"))

\* Section 6, annual mileage positive check.
invalid_mileage(d) == {i \in Positions(d) : InvalidMileage(Cell(d, i, "annual_mileage"))}

MileagePositiveCheck(d) ==
    IF invalid_mileage(d) # {}
    THEN SetColumn(d, "annual_mileage", [i \in Positions(d) |->
            IF i \in invalid_mileage(d) THEN MileageReplacement(d)
            ELSE Cell(d, i, "annual_mileage")])
    ELSE d

CleanCheckMileage ==
    /\ At("cleaning", "check_mileage")
    /\ df' = MileagePositiveCheck(df)
    /\ df_prev' = df
    /\ validation_issues' = Collected(validation_issues, "annual_mileage",
                                      Cardinality(invalid_mileage(df)))
    /\ pc' = "map_binary"
    /\ UNCHANGED <<fs, proc, cwd, df_raw, log, exit_status, exit_cause, outputs>>

\* Series.replace({0: zero, 1: one}): a cell equal to the number 0 or 1 is
\* replaced; the text "0" or "1" is not equal to a number and stays.
ReplacedCode(x, zero, one) ==
    IF IsNum(x) /\ x.n = 0 THEN Str(zero)
    ELSE IF IsNum(x) /\ x.n = 1 THEN Str(one)
    ELSE x

ReplaceCodes(d, col, zero, one) ==
    IF col \in d.columns
    THEN SetColumn(d, col, [i \in Positions(d) |-> ReplacedCode(Cell(d, i, col), zero, one)])
    ELSE d

\* "Update Binary Columns to Readable Categories".
UpdateBinaryColumns(d) ==
    ReplaceCodes(ReplaceCodes(d, "vehicle_ownership", "leased", "owned"),
                 "claim_status", "no claim", "claim")

CleanMapBinary ==
    /\ At("cleaning", "map_binary")
    /\ df' = UpdateBinaryColumns(df)
    /\ df_prev' = df
    /\ pc' = "validate_ownership"
    /\ UNCHANGED <<fs, proc, cwd, df_raw, validation_issues, log, exit_status,
                   exit_cause, outputs>>

valid_ownership == {"leased", "owned"}
valid_claims == {"claim", "no claim"}

\* ~df[col].isin(valid)
NotIn(valid, x) == ~(IsStr(x) /\ x.s \in valid)

\* Mutant: the offending rows are dropped, df = df[df[col].isin(valid)].
ValidateCategoryDropRows(d, col, valid) ==
    IF col \in d.columns
    THEN [d EXCEPT !.rows = RowsAt(d.rows, 1,
            {i \in Positions(d) : ~NotIn(valid, Cell(d, i, col))})]
    ELSE d

\* df.loc[~df[col].isin(valid), col] = np.nan, when the column is present.
ValidateCategory(d, col, valid) ==
    IF col \in d.columns
    THEN SetColumn(d, col, [i \in Positions(d) |->
            IF NotIn(valid, Cell(d, i, col)) THEN NaN ELSE Cell(d, i, col)])
    ELSE d

InvalidCount(d, col, valid) ==
    IF col \in d.columns
    THEN Cardinality({i \in Positions(d) : NotIn(valid, Cell(d, i, col))})
    ELSE 0

CleanValidateOwnership ==
    /\ At("cleaning", "validate_ownership")
    /\ df' = ValidateCategory(df, "vehicle_ownership", valid_ownership)
    /\ df_prev' = df
    /\ validation_issues' = Collected(validation_issues, "vehicle_ownership",
                                InvalidCount(df, "vehicle_ownership", valid_ownership))
    /\ pc' = "validate_claims"
    /\ UNCHANGED <<fs, proc, cwd, df_raw, log, exit_status, exit_cause, outputs>>

CleanValidateClaims ==
    /\ At("cleaning", "validate_claims")
    /\ df' = ValidateCategory(df, "claim_status", valid_claims)
    /\ df_prev' = df
    /\ validation_issues' = Collected(validation_issues, "claim_status",
                                InvalidCount(df, "claim_status", valid_claims))
    /\ log' = log \cup {"INFO"}
    /\ pc' = "dedup"
    /\ UNCHANGED <<fs, proc, cwd, df_raw, exit_status, exit_cause, outputs>>

\* Mutant: duplicates removed from the list while it is iterated, so that the
\* row after a removed one is skipped.
RECURSIVE RemoveWhileIterating(_, _)
RemoveWhileIterating(rows, i) ==
    IF i > Len(rows) THEN rows
    ELSE IF \E j \in 1..(i - 1) : rows[j].c = rows[i].c
         THEN RemoveWhileIterating(SubSeq(rows, 1, i - 1) \o SubSeq(rows, i + 1, Len(rows)), i + 1)
         ELSE RemoveWhileIterating(rows, i + 1)

DropDuplicatesInPlace(d) == [d EXCEPT !.rows = RemoveWhileIterating(d.rows, 1)]

\* df.drop_duplicates(): a row equal in every column to an earlier row is
\* dropped (two missing values are equal); the rows kept keep their index label.
DropDuplicates(d) ==
    [d EXCEPT !.rows = RowsAt(d.rows, 1,
        {i \in Positions(d) : \A j \in 1..(i - 1) : d.rows[j].c # d.rows[i].c})]

\* df.reset_index(drop=True): the index labels become 0..n-1.
ResetIndex(d) ==
    [d EXCEPT !.rows = [i \in Positions(d) |-> [d.rows[i] EXCEPT !.idx = i - 1]]]

\* Section 8.
Deduplicate(d) == ResetIndex(DropDuplicates(d))

CleanDedup ==
    /\ At("cleaning", "dedup")
    /\ df' = Deduplicate(df)
    /\ df_prev' = df
    /\ pc' = "save"
    /\ UNCHANGED <<fs, proc, cwd, df_raw, validation_issues, log, exit_status,
                   exit_cause, outputs>>

\* Sections 9 and 10: the summary, then df.to_csv(cleaned_file, index=False).
CleanSave ==
    /\ At("cleaning", "save")
    /\ fs' = WriteFile(cleaned_file, ToCsv(df))
    /\ df_prev' = df
    /\ log' = log \cup {"INFO"}
    /\ pc' = "diagnostics"
    /\ UNCHANGED <<proc, cwd, df, df_raw, validation_issues, exit_status, exit_cause, outputs>>

\* Section 11: the two diagnostic plots; the script then ends.
CleanDiagnostics ==
    /\ At("cleaning", "diagnostics")
    /\ log' = log \cup {"INFO"}
    /\ df_prev' = df
    /\ Exit(0, "completed")
    /\ UNCHANGED <<fs, proc, cwd, df, df_raw, validation_issues, outputs>>

Cleaning ==
    \/ CleanLoad
    \/ CleanLoadFail
    \/ CleanStandardize
    \/ CleanText
    \/ CleanFillMissing
    \/ CleanFillMissingFail
    \/ CleanCheckCredit
    \/ CleanCheckMileage
    \/ CleanMapBinary
    \/ CleanValidateOwnership
    \/ CleanValidateClaims
    \/ CleanDedup
    \/ CleanSave
    \/ CleanDiagnostics

---------------------------------------------------------------------------
(* The Aggregator's arithmetic. *)

\* str.lower() of a cell's text.
Lower(s) ==
    CASE s = " Claim" -> " claim"
      [] s = "Old " -> "old "
      [] OTHER -> s

\* round(p / q): the nearest integer, a tie to the even one (q > 0).
RoundHalfEven(p, q) ==
    LET f == p \div q
        r == p - f * q
    IN  IF 2 * r < q THEN f
        ELSE IF 2 * r > q THEN f + 1
        ELSE IF f % 2 = 0 THEN f ELSE f + 1

\* round(mean * scale / unit, 2), in hundredths; NaN when the mean is NaN.
Round2(mean, scale, unit) ==
    IF mean.count = 0 THEN NaN
    ELSE Num(RoundHalfEven(mean.sum * scale * 100, mean.count * unit))

None == Str("None")

\* Mutant: the mean without the guard for a table with no valid indicator.
claim_rate_unguarded(data) == Round2(Mean(Column(data, "claim_flag")), 100, 1)

\* Mutant: fillna(0) before the mean, so that a missing indicator counts in
\* the denominator.
claim_rate_fillna0(data) ==
    IF NRows(data) = 0 THEN Num(0)
    ELSE Round2([sum |-> SumNums(NumbersOf(Column(data, "claim_flag"))),
                 count |-> NRows(data)], 100, 1)

\* app.py, calculate_metrics: line 65.
claim_rate_of(data) ==
    IF NumbersOf(Column(data, "claim_flag")) # <<>>
    THEN Round2(Mean(Column(data, "claim_flag")), 100, 1)
    ELSE Num(0)

calculate_metrics(data) ==
    [total_customers |-> NRows(data),
     total_claims |-> SumNums(NumbersOf(Column(data, "claim_flag"))),
     claim_rate |-> claim_rate_of(data),
     avg_credit_score |->
        IF "credit_score" \in data.columns
        THEN Round2(Mean(Column(data, "credit_score")), 1, Quarters(1)) ELSE None,
     avg_mileage |->
        IF "annual_mileage" \in data.columns
        THEN Round2(Mean(Column(data, "annual_mileage")), 1, Quarters(1)) ELSE None]

\* The keys of df.groupby(col, dropna=dropna): the distinct values of the
\* column, the missing value among them only when dropna is False.
GroupKeys(d, col, dropna) ==
    {Cell(d, i, col) : i \in {j \in Positions(d) : ~(dropna /\ IsNaN(Cell(d, j, col)))}}

\* The cells of `valcol` in the rows of the group of `key`.
GroupCells(d, col, key, valcol) ==
    Column([d EXCEPT !.rows = RowsAt(d.rows, 1,
                {i \in Positions(d) : Cell(d, i, col) = key})], valcol)

\* The percentage mean * 100, as a fraction.
Percent(mean) == [sum |-> 100 * mean.sum, count |-> mean.count]

\* (x.str.lower() == "claim"): 1 or 0 per row, a missing value comparing False.
IsClaimText(x) == IF IsStr(x) /\ Lower(x.s) = "claim" THEN Num(1) ELSE Num(0)

\* The rate of a claim_status series of object dtype: over every row.
ObjectClaimMean(cells) == Mean([i \in DOMAIN cells |-> IsClaimText(cells[i])])

\* The rate of a group's cells: Series.mean() (the non-missing numbers), or,
\* with `object`, the mean of (x.str.lower() == "claim").
GroupRate(cells, object) == IF object THEN ObjectClaimMean(cells) ELSE Mean(cells)

\* One breakdown: per group its key, its claim rate (%), and, for the record,
\* the number of rows the group holds.
Breakdown(d, col, dropna, valcol, object) ==
    {[key |-> key,
      size |-> Len(GroupCells(d, col, key, valcol)),
      claim_rate |-> Percent(GroupRate(GroupCells(d, col, key, valcol), object))] :
        key \in GroupKeys(d, col, dropna)}

\* A chart raises when a column it reads is absent from the table.
ChartFails(d, columns) == ~(columns \subseteq d.columns)

\* One try block holding several charts, `needs[i]` the columns chart i reads:
\* the charts built, in order, until the first one raises; the exception
\* leaves the block, so no later chart of the block is attempted.
RECURSIVE BuiltInTry(_, _, _)
BuiltInTry(d, needs, i) ==
    IF i > Len(needs) \/ ChartFails(d, needs[i]) THEN {}
    ELSE {i} \cup BuiltInTry(d, needs, i + 1)

\* The block's except clause is entered.
TryRaises(d, needs) == \E i \in DOMAIN needs : ChartFails(d, needs[i])

---------------------------------------------------------------------------
(* data/app.py *)

cleaned_data_csv == cwd \o <<"cleaned_data.csv">>

DashLoad ==
    /\ At("dashboard", "load")
    /\ Exists(cleaned_data_csv)
    /\ df' = ReadCsv(fs[cleaned_data_csv])
    /\ log' = log \cup {"INFO"}
    /\ pc' = "normalize"
    /\ UNCHANGED <<fs, proc, cwd, df_raw, df_prev, validation_issues, exit_status,
                   exit_cause, outputs>>

\* except: logging.error(...); raise SystemExit(f"Error: {e}")
DashLoadFail ==
    /\ At("dashboard", "load")
    /\ ~Exists(cleaned_data_csv)
    /\ log' = log \cup {"ERROR"}
    /\ Exit(SystemExitStatus("Error: [Errno 2] No such file or directory"), "load_error")
    /\ UNCHANGED <<fs, proc, cwd, df, df_raw, df_prev, validation_issues, outputs>>

\* Lines 38-40: the compatibility rename.
RenameLegacyOutcome(d) ==
    IF "outcome" \in d.columns /\ "claim_status" \notin d.columns
    THEN RenameColumn(d, "outcome", "claim_status")
    ELSE d

\* Lines 43-46: Series.map({1: "claim", 0: "no claim"}) when the column is
\* numeric; a value the map does not hold becomes missing.
MappedClaimStatus(x) ==
    IF IsNum(x) /\ x.n = 1 THEN Str("claim")
    ELSE IF IsNum(x) /\ x.n = 0 THEN Str("no claim")
    ELSE NaN

MapNumericClaimStatus(d) ==
    IF "claim_status" \in d.columns /\ ~IsObjectDtype(d, "claim_status")
    THEN SetColumn(d, "claim_status",
            [i \in Positions(d) |-> MappedClaimStatus(Cell(d, i, "claim_status"))])
    ELSE d

\* Line 50: astype(str).str.lower().map({"claim": 1, "no claim": 0}).
claim_flag_of(x) ==
    LET text == Lower(AsTypeStr(x).s)
    IN  IF text = "claim" THEN Num(1)
        ELSE IF text = "no claim" THEN Num(0)
        ELSE NaN

\* df["claim_flag"] = ...
WithClaimFlag(d) ==
    [columns |-> d.columns \cup {"claim_flag"},
     rows |-> [i \in Positions(d) |->
        [idx |-> d.rows[i].idx,
         c |-> [col \in d.columns \cup {"claim_flag"} |->
            IF col = "claim_flag" THEN claim_flag_of(d.rows[i].c["claim_status"])
            ELSE d.rows[i].c[col]]]]]

\* Lines 38-56.
DashNormalize ==
    /\ At("dashboard", "normalize")
    /\ LET d == MapNumericClaimStatus(RenameLegacyOutcome(df))
       IN  IF "claim_status" \in d.columns
           THEN /\ df' = WithClaimFlag(d)
                /\ log' = log \cup {"INFO"}
                /\ pc' = "create_app"
                /\ UNCHANGED <<exit_status, exit_cause>>
           ELSE /\ df' = d
                /\ log' = log \cup {"ERROR"}
                /\ Exit(SystemExitStatus("Column 'claim_status' not found in dataset."),
                        "no_claim_status")
    /\ UNCHANGED <<fs, proc, cwd, df_raw, df_prev, validation_issues, outputs>>

FilterDims == {"age", "gender", "driving_experience", "vehicle_year"}
DashboardDims == {"age", "gender", "driving_experience", "vehicle_ownership", "vehicle_year"}

\* sorted(df[col].dropna().unique()): what a dropdown offers.
DropdownOptions(d, col) == GroupKeys(d, col, TRUE)

\* Lines 89-159: the app and its layout.
DashCreateApp ==
    /\ At("dashboard", "create_app")
    /\ pc' = "serving"
    /\ UNCHANGED <<fs, proc, cwd, df, df_raw, df_prev, validation_issues, log,
                   exit_status, exit_cause, outputs>>

\* Lines 183-192: filtered_df = df.copy(), then one isin filter per selection
\* that is neither None nor empty.
IsIn(d, col, selected) ==
    [d EXCEPT !.rows = RowsAt(d.rows, 1,
        {i \in Positions(d) : Cell(d, i, col) \in selected})]

Filtered(d, col, selected) == IF selected # {} THEN IsIn(d, col, selected) ELSE d

\* Mutant: each call filters what the previous call left, not a copy of df.
filtered_df_cumulative(d, selected_age, selected_gender, selected_experience, selected_year) ==
    Filtered(Filtered(Filtered(Filtered(
        IF outputs.by = "dashboard" THEN outputs.data ELSE d,
        "age", selected_age),
        "gender", selected_gender),
        "driving_experience", selected_experience),
        "vehicle_year", selected_year)

filtered_df_of(d, selected_age, selected_gender, selected_experience, selected_year) ==
    Filtered(Filtered(Filtered(Filtered(d,
        "age", selected_age),
        "gender", selected_gender),
        "driving_experience", selected_experience),
        "vehicle_year", selected_year)

\* The five groupby(dim, dropna=False)["claim_flag"].mean() of the callback.
DashboardBreakdown(d, dim) == Breakdown(d, dim, FALSE, "claim_flag", FALSE)

\* The callback's outputs, in the order of the return statement, and the
\* columns each figure reads.
DashboardOutputs ==
    <<"kpi-cards", "claims-by-age", "claims-by-gender", "experience-vs-claim",
      "ownership-vs-claim", "vehicle-year-vs-claim", "speeding-vs-claim">>

FigureColumns ==
    <<{"claim_flag"}, {"age", "claim_flag"}, {"gender", "claim_flag"},
      {"driving_experience", "claim_flag"}, {"vehicle_ownership", "claim_flag"},
      {"vehicle_year", "claim_flag"}, {"claim_status"}>>

\* Mutant: the callback filters the module-level table itself, without the copy.
update_dashboard_inplace(selected_age, selected_gender, selected_experience, selected_year) ==
    /\ At("dashboard", "serving")
    /\ ~TryRaises(df, FigureColumns)
    /\ df' = filtered_df_of(df, selected_age, selected_gender,
                            selected_experience, selected_year)
    /\ outputs' = [by |-> "dashboard",
                   selections |-> [age |-> selected_age, gender |-> selected_gender,
                                   driving_experience |-> selected_experience,
                                   vehicle_year |-> selected_year],
                   data |-> df',
                   metrics |-> calculate_metrics(df'),
                   groups |-> [dim \in DashboardDims |-> DashboardBreakdown(df', dim)],
                   returned |-> {DashboardOutputs[i] : i \in DOMAIN DashboardOutputs}]
    /\ log' = log \cup {"INFO"}
    /\ UNCHANGED <<fs, proc, cwd, pc, df_raw, df_prev, validation_issues,
                   exit_status, exit_cause>>

\* The callback is one try block: when nothing raises the seven outputs are
\* returned; otherwise the except clause logs the error and re-raises, and
\* the callback returns nothing.
update_dashboard(selected_age, selected_gender, selected_experience, selected_year) ==
    /\ At("dashboard", "serving")
    /\ LET filtered_df == filtered_df_of(df, selected_age, selected_gender,
                                         selected_experience, selected_year)
           selections == [age |-> selected_age, gender |-> selected_gender,
                          driving_experience |-> selected_experience,
                          vehicle_year |-> selected_year]
       IN  IF TryRaises(filtered_df, FigureColumns)
           THEN /\ outputs' = [by |-> "dashboard_error",
                               selections |-> selections,
                               built |-> {DashboardOutputs[i] :
                                    i \in BuiltInTry(filtered_df, FigureColumns, 1)},
                               returned |-> {}]
                /\ log' = log \cup {"ERROR"}
           ELSE /\ outputs' = [by |-> "dashboard",
                               selections |-> selections,
                               data |-> filtered_df,
                               metrics |-> calculate_metrics(filtered_df),
                               groups |-> [dim \in DashboardDims |->
                                                DashboardBreakdown(filtered_df, dim)],
                               returned |-> {DashboardOutputs[i] :
                                    i \in DOMAIN DashboardOutputs}]
                /\ log' = log \cup {"INFO"}
    /\ UNCHANGED <<fs, proc, cwd, pc, df, df_raw, df_prev, validation_issues,
                   exit_status, exit_cause>>

\* What the four dropdowns hold: what the last call of the callback was
\* given, nothing selected before the first call.
CurrentSelections ==
    IF outputs.by \in {"dashboard", "dashboard_error"} THEN outputs.selections
    ELSE [dim \in FilterDims |-> {}]

\* A filter-change event: one dropdown is set to a subset of what it offers,
\* and the callback is called with the values of all four (the call Dash
\* makes when the page loads is the event that changes nothing).
FilterChange ==
    \E dim \in FilterDims : \E selected \in SUBSET DropdownOptions(df, dim) :
        LET values == [CurrentSelections EXCEPT ![dim] = selected]
        IN  update_dashboard(values["age"], values["gender"],
                             values["driving_experience"], values["vehicle_year"])

Dashboard == DashLoad \/ DashLoadFail \/ DashNormalize \/ DashCreateApp \/ FilterChange

---------------------------------------------------------------------------
(* metrics_summary.py *)

MetricsLoad ==
    /\ At("metrics", "load")
    /\ Exists(cleaned_data_csv)
    /\ df' = ReadCsv(fs[cleaned_data_csv])
    /\ log' = log \cup {"INFO"}
    /\ pc' = "standard"
    /\ UNCHANGED <<fs, proc, cwd, df_raw, df_prev, validation_issues, exit_status,
                   exit_cause, outputs>>

\* except: logging.error(...); print(...); raise SystemExit
MetricsLoadFail ==
    /\ At("metrics", "load")
    /\ ~Exists(cleaned_data_csv)
    /\ log' = log \cup {"ERROR"}
    /\ Exit(SystemExitStatus(""), "load_error")
    /\ UNCHANGED <<fs, proc, cwd, df, df_raw, df_prev, validation_issues, outputs>>

\* Lines 47-52.
StandardClaimMean(d) ==
    IF IsObjectDtype(d, "claim_status")
    THEN ObjectClaimMean(Column(d, "claim_status"))
    ELSE Mean(Column(d, "claim_status"))

\* df.groupby(dim)["claim_status"].apply(...): groupby's default drops the
\* rows whose key is missing.
MetricsBreakdown(d, dim) ==
    Breakdown(d, dim, TRUE, "claim_status", IsObjectDtype(d, "claim_status"))

StandardDims == {"age", "gender"}
ExtendedDims == {"vehicle_ownership", "driving_experience", "vehicle_year"}

\* Section 3: the standard metrics and the breakdowns by age and gender.
MetricsStandard ==
    /\ At("metrics", "standard")
    /\ "claim_status" \in df.columns
    /\ outputs' = [by |-> "metrics",
                   data |-> df,
                   metrics |->
                      [total_customers |-> NRows(df),
                       total_claims |-> StandardClaimMean(df).sum,
                       claim_rate |-> Round2(StandardClaimMean(df), 100, 1),
                       avg_credit_score |->
                            Round2(Mean(Column(df, "credit_score")), 1, Quarters(1)),
                       avg_mileage |->
                            Round2(Mean(Column(df, "annual_mileage")), 1, Quarters(1))],
                   groups |-> [dim \in StandardDims |-> MetricsBreakdown(df, dim)]]
    /\ log' = log \cup {"INFO"}
    /\ pc' = "extended"
    /\ UNCHANGED <<fs, proc, cwd, df, df_raw, df_prev, validation_issues,
                   exit_status, exit_cause>>

\* df["claim_status"] raises KeyError inside the try of section 3:
\* logging.error(...); print(...); raise.
MetricsStandardFail ==
    /\ At("metrics", "standard")
    /\ "claim_status" \notin df.columns
    /\ log' = log \cup {"ERROR"}
    /\ Exit(UncaughtExceptionStatus, "summary_error")
    /\ UNCHANGED <<fs, proc, cwd, df, df_raw, df_prev, validation_issues, outputs>>

\* Sections 4 and 5: the breakdowns by ownership, experience and vehicle year;
\* the script then ends.
MetricsExtended ==
    /\ At("metrics", "extended")
    /\ ExtendedDims \subseteq df.columns
    /\ outputs' = [outputs EXCEPT !.groups =
                        [dim \in StandardDims \cup ExtendedDims |->
                            IF dim \in StandardDims THEN outputs.groups[dim]
                            ELSE MetricsBreakdown(df, dim)]]
    /\ log' = log \cup {"INFO"}
    /\ Exit(0, "completed")
    /\ UNCHANGED <<fs, proc, cwd, df, df_raw, df_prev, validation_issues>>

\* df.groupby(dim) raises KeyError inside the try of section 4:
\* logging.error(...); print(...); raise.
MetricsExtendedFail ==
    /\ At("metrics", "extended")
    /\ ~(ExtendedDims \subseteq df.columns)
    /\ log' = log \cup {"ERROR"}
    /\ Exit(UncaughtExceptionStatus, "summary_error")
    /\ UNCHANGED <<fs, proc, cwd, df, df_raw, df_prev, validation_issues, outputs>>

Metrics ==
    \/ MetricsLoad
    \/ MetricsLoadFail
    \/ MetricsStandard
    \/ MetricsStandardFail
    \/ MetricsExtended
    \/ MetricsExtendedFail

---------------------------------------------------------------------------
(* data_visualization.py *)

VizLoad ==
    /\ At("visualization", "load")
    /\ Exists(cleaned_data_csv)
    /\ df' = ReadCsv(fs[cleaned_data_csv])
    /\ log' = log \cup {"INFO"}
    /\ pc' = "preprocess"
    /\ UNCHANGED <<fs, proc, cwd, df_raw, df_prev, validation_issues, exit_status,
                   exit_cause, outputs>>

\* except: logging.error(...); print(...); raise SystemExit
VizLoadFail ==
    /\ At("visualization", "load")
    /\ ~Exists(cleaned_data_csv)
    /\ log' = log \cup {"ERROR"}
    /\ Exit(SystemExitStatus(""), "load_error")
    /\ UNCHANGED <<fs, proc, cwd, df, df_raw, df_prev, validation_issues, outputs>>

\* Lines 50-52: 1 if str(x).lower() in ["yes", "claim", "1", "true"] else 0.
claim_status_num_of(x) ==
    IF Lower(AsTypeStr(x).s) \in {"yes", "claim", "1", "true"} THEN Num(1) ELSE Num(0)

\* Section 3: df["claim_status_num"].
WithClaimStatusNum(d) ==
    [columns |-> d.columns \cup {"claim_status_num"},
     rows |-> [i \in Positions(d) |->
        [idx |-> d.rows[i].idx,
         c |-> [col \in d.columns \cup {"claim_status_num"} |->
            IF col # "claim_status_num" THEN d.rows[i].c[col]
            ELSE IF IsObjectDtype(d, "claim_status")
                 THEN claim_status_num_of(d.rows[i].c["claim_status"])
                 ELSE d.rows[i].c["claim_status"]]]]]

VizPreprocess ==
    /\ At("visualization", "preprocess")
    /\ "claim_status" \in df.columns
    /\ df' = WithClaimStatusNum(df)
    /\ pc' = "charts"
    /\ UNCHANGED <<fs, proc, cwd, df_raw, df_prev, validation_issues, log, exit_status,
                   exit_cause, outputs>>

\* df["claim_status"] (line 49) raises KeyError outside any try.
VizPreprocessFail ==
    /\ At("visualization", "preprocess")
    /\ "claim_status" \notin df.columns
    /\ Exit(UncaughtExceptionStatus, "key_error")
    /\ UNCHANGED <<fs, proc, cwd, df, df_raw, df_prev, validation_issues, log, outputs>>

\* Section 4: the static charts, in the order of the one try block that
\* holds them, and the columns each reads.
StaticCharts ==
    <<"claims_by_age.png", "claims_by_gender.png", "vehicle_ownership.png",
      "correlation_heatmap.png", "claims_by_age_gender_heatmap.png">>

StaticColumns ==
    <<{"age", "claim_status_num"}, {"gender", "claim_status_num"}, {"vehicle_ownership"},
      {}, {"age", "gender", "claim_status_num"}>>

\* Section 5: the interactive charts, likewise.
InteractiveCharts ==
    <<"claims_by_driving_experience.html", "claims_by_vehicle_year.html",
      "claims_by_vehicle_ownership.html", "speeding_vs_claim_status.html">>

InteractiveColumns ==
    <<{"driving_experience", "claim_status_num"}, {"vehicle_year", "claim_status_num"},
      {"vehicle_ownership", "claim_status_num"}, {"claim_status"}>>

\* Sections 4 to 6: the two try blocks, each logging an error when a chart
\* raises; the script then ends.  `saved` holds the chart files written.
VizCharts ==
    /\ At("visualization", "charts")
    /\ outputs' = [by |-> "visualization",
                   saved |->
                      {StaticCharts[i] : i \in BuiltInTry(df, StaticColumns, 1)}
                      \cup {InteractiveCharts[i] : i \in BuiltInTry(df, InteractiveColumns, 1)}]
    /\ log' = log \cup {"INFO"}
                  \cup (IF TryRaises(df, StaticColumns) \/ TryRaises(df, InteractiveColumns)
                        THEN {"ERROR"} ELSE {})
    /\ Exit(0, "completed")
    /\ UNCHANGED <<fs, proc, cwd, df, df_raw, df_prev, validation_issues>>

Visualization == VizLoad \/ VizLoadFail \/ VizPreprocess \/ VizPreprocessFail \/ VizCharts

---------------------------------------------------------------------------

Next == Start \/ Cleaning \/ Metrics \/ Visualization \/ Dashboard

Spec == Init /\ [][Next]_vars

---------------------------------------------------------------------------
(* Properties of the cleaning stage. *)

CleaningAfter(labels) == proc = "cleaning" /\ pc \in labels

CleaningCompleted ==
    proc = "cleaning" /\ pc = "exited" /\ exit_cause = "completed"

\* C1: after the cleaning stage every row's credit_score lies in [0,1],
\* the rows whose input value was missing included.
C1_CreditScoreInUnitInterval ==
    CleaningCompleted =>
        \A i \in Positions(df) :
            /\ IsNum(Cell(df, i, "credit_score"))
            /\ Cell(df, i, "credit_score").n >= Quarters(0)
            /\ Cell(df, i, "credit_score").n <= Quarters(1)

\* The column of the table as loaded holds a value > 0.
HoldsPositive(d, col) == \E i \in Positions(d) : IsNum(Cell(d, i, col)) /\ Cell(d, i, col).n > 0

\* C2: after the cleaning stage every row's annual_mileage is strictly
\* greater than 0, whatever the proportion of non-positive or missing values
\* in the input (stated for the inputs that hold at least one value > 0).
C2_MileagePositive ==
    (CleaningCompleted /\ HoldsPositive(df_raw, "annual_mileage")) =>
        \A i \in Positions(df) :
            /\ IsNum(Cell(df, i, "annual_mileage"))
            /\ Cell(df, i, "annual_mileage").n > 0

\* The median over only the values of the column that are > 0.
MedianOfValid(d, col) ==
    Median(SelectSeq(Column(d, col), LAMBDA x : IsNum(x) /\ x.n > 0))

\* C3: the positive check replaces every annual_mileage <= 0 by the median
\* of only the values > 0 and leaves every value > 0 unchanged (stated for
\* the tables that hold at least one value > 0).
C3_ReplacedByMedianOfValid ==
    (CleaningAfter({"map_binary"}) /\ HoldsPositive(df_prev, "annual_mileage")) =>
        /\ NRows(df) = NRows(df_prev)
        /\ \A i \in Positions(df_prev) :
            LET before == Cell(df_prev, i, "annual_mileage")
                after == Cell(df, i, "annual_mileage")
            IN  /\ (IsNum(before) /\ before.n <= 0) =>
                        after = MedianOfValid(df_prev, "annual_mileage")
                /\ (IsNum(before) /\ before.n > 0) => after = before

---------------------------------------------------------------------------
(* Properties of the Aggregator. *)

Aggregated(stage) == outputs.by = stage

\* The rows of the aggregated table with a non-missing claim indicator.
ValidRows(d) == {i \in Positions(d) : ~IsNaN(Cell(d, i, "claim_flag"))}
ClaimRows(d) == {i \in Positions(d) : Cell(d, i, "claim_flag") = Num(1)}

\* C4: calculate_metrics of a table in which no row has a non-missing claim
\* indicator returns claim_rate exactly 0.0 (not NaN) and total_claims 0.
C4_NoValidRowsRateZero ==
    (Aggregated("dashboard") /\ ValidRows(outputs.data) = {}) =>
        /\ outputs.metrics.claim_rate = Num(0)
        /\ outputs.metrics.total_claims = 0

C4_Witness ==
    /\ Aggregated("dashboard")
    /\ NRows(outputs.data) > 0
    /\ ValidRows(outputs.data) = {}

\* C5 as stated: total_customers is the row count, total_claims the number of
\* rows whose indicator is 1, and claim_rate equals
\* 100 * total_claims / (rows with a non-missing indicator) exactly.
C5_RateIsExactQuotient ==
    Aggregated("dashboard") =>
        LET d == outputs.data
            m == outputs.metrics
        IN  /\ m.total_customers = NRows(d)
            /\ m.total_claims = Cardinality(ClaimRows(d))
            /\ ValidRows(d) # {} =>
                /\ IsNum(m.claim_rate)
                /\ m.claim_rate.n * Cardinality(ValidRows(d)) = 100 * 100 * m.total_claims

\* C5 as amended: claim_rate is that quotient rounded to 2 decimals (the
\* multiple of 0.01 nearest to it), and 0.0 when no row has an indicator.
C5_RateIsRoundedQuotient ==
    Aggregated("dashboard") =>
        LET d == outputs.data
            m == outputs.metrics
            valid == Cardinality(ValidRows(d))
            err == m.claim_rate.n * valid - 100 * 100 * Cardinality(ClaimRows(d))
        IN  /\ m.total_customers = NRows(d)
            /\ m.total_claims = Cardinality(ClaimRows(d))
            /\ IsNum(m.claim_rate)
            /\ valid = 0 => m.claim_rate.n = 0
            /\ valid > 0 => (2 * err <= valid /\ -2 * err <= valid)

\* One claim among three rows with an indicator: a quotient that needs rounding.
C5_Witness ==
    /\ Aggregated("dashboard")
    /\ Cardinality(ClaimRows(outputs.data)) = 1
    /\ Cardinality(ValidRows(outputs.data)) = 3

RawPath == Root \o <<"Car_Insurance_Claim.csv">>

\* What the specification says a raw claim_status field is normalized to.
NormalizedClaimStatus(field) ==
    CASE IsNum(field) /\ field.n = 1 -> Str("claim")
      [] IsNum(field) /\ field.n = 0 -> Str("no claim")
      [] IsStr(field) /\ StripLower(field.s) \in {"claim", "no claim"} -> Str(StripLower(field.s))
      [] OTHER -> NaN

\* C6: a claim_status column that mixes the codes 0/1 with text is normalized
\* code by code and label by label; for 1, 0, 1, "claim", "bogus" the cleaned
\* column is claim, no claim, claim, claim, missing, and the Aggregator
\* reports total_claims = 3 and claim_rate = 75.0 on it.
C6_MixedClaimStatusNormalized ==
    /\ (CleaningAfter({"dedup"}) /\ "claim_status" \in fs[RawPath].columns) =>
            \A i \in Positions(df) :
                Cell(df, i, "claim_status") =
                    NormalizedClaimStatus(fs[RawPath].rows[i]["claim_status"])
    /\ (CleaningCompleted /\ fs[RawPath] = ExampleFile) =>
            Column(df, "claim_status") =
                <<Str("claim"), Str("no claim"), Str("claim"), Str("claim"), NaN>>
    /\ (Aggregated("dashboard") /\ fs[RawPath] = ExampleFile
            /\ NRows(outputs.data) = NRows(df)) =>
            /\ outputs.metrics.total_claims = 3
            /\ outputs.metrics.claim_rate = Num(75 * 100)

\* C7: deduplication (drop exact duplicates keeping the first, then reindex)
\* applied to its own output yields the same rows, order and index.
C7_DedupIdempotent ==
    CleaningAfter({"save", "diagnostics"}) => Deduplicate(df) = df

\* The deduplication has run and has dropped a row.
C7_Witness == CleaningAfter({"save"}) /\ NRows(df) < NRows(df_prev)

RECURSIVE SumSizes(_)
SumSizes(groups) ==
    IF groups = {} THEN 0
    ELSE LET g == CHOOSE g \in groups : TRUE
         IN  g.size + SumSizes(groups \ {g})

\* C8: in every grouped breakdown the Aggregator produces (the dashboard
\* callback's and the metrics stage's) the rows whose category is missing form
\* a group of their own, so the group sizes sum to the table's row count.
C8_GroupSizesSumToRowCount ==
    outputs.by \in {"dashboard", "metrics"} =>
        \A dim \in DOMAIN outputs.groups :
            /\ SumSizes(outputs.groups[dim]) = NRows(outputs.data)
            /\ (\E i \in Positions(outputs.data) : IsNaN(Cell(outputs.data, i, dim))) =>
                    \E g \in outputs.groups[dim] : IsNaN(g.key)

\* The rule of each validation step, by the position the stage is at after it.
ValidationSteps ==
    [check_mileage |-> "credit_score", map_binary |-> "annual_mileage",
     validate_claims |-> "vehicle_ownership", dedup |-> "claim_status"]

SatisfiesRule(col, x) ==
    CASE col = "credit_score" -> IsNum(x) /\ x.n >= Quarters(0) /\ x.n <= Quarters(1)
      [] col = "annual_mileage" -> IsNum(x) /\ x.n > 0
      [] col = "vehicle_ownership" -> x \in {Str("owned"), Str("leased")}
      [] col = "claim_status" -> x \in {Str("claim"), Str("no claim")}

\* C9: a validation step never removes or reorders a row, keeps every cell
\* that satisfies the rule and every column the rule is not about; of all the
\* steps of the cleaning stage only the deduplication changes the row count.
C9_ValidationKeepsRows ==
    /\ \A label \in DOMAIN ValidationSteps :
        CleaningAfter({label}) =>
            /\ NRows(df) = NRows(df_prev)
            /\ df.columns = df_prev.columns
            /\ \A i \in Positions(df_prev) :
                /\ df.rows[i].idx = df_prev.rows[i].idx
                /\ \A col \in df_prev.columns :
                    (col # ValidationSteps[label]
                        \/ SatisfiesRule(col, Cell(df_prev, i, col))) =>
                        Cell(df, i, col) = Cell(df_prev, i, col)
    /\ (proc = "cleaning" /\ pc \notin {"standardize", "save"}) =>
            NRows(df) = NRows(df_prev)

\* The claim_status validation has run and has nulled a cell.
C9_Witness ==
    /\ CleaningAfter({"dedup"})
    /\ "claim_status" \in df.columns
    /\ \E i \in Positions(df) :
        /\ IsNaN(Cell(df, i, "claim_status"))
        /\ ~IsNaN(Cell(df_prev, i, "claim_status"))

\* C10: in every stage, when the input file cannot be read the stage logs an
\* error line and the process ends with a non-zero status.
C10_LoadFailureLoggedAndNonZero ==
    (pc = "exited" /\ exit_cause = "load_error") =>
        /\ "ERROR" \in log
        /\ exit_status # 0

---------------------------------------------------------------------------
(* Properties of the error handling. *)

\* C11: when the table has no claim_status column after normalization the
\* pipeline aborts: the cleaning stage persists no cleaned table and does not
\* complete, and the dashboard stage logs an error and exits with a non-zero
\* status before it creates the app.
C11_NoClaimStatusAborts ==
    /\ (proc = "cleaning" /\ pc \notin {"load", "standardize"}
            /\ "claim_status" \notin df.columns) =>
            /\ ~Exists(cleaned_file)
            /\ exit_cause # "completed"
    /\ (proc = "dashboard" /\ pc \notin {"load", "normalize"}
            /\ "claim_status" \notin df.columns) =>
            /\ pc = "exited"
            /\ "ERROR" \in log
            /\ exit_status # 0

\* C12: when one chart fails the failure is logged and every other chart of
\* the run is still built: the visualization stage saves every chart whose
\* columns are present, and a dashboard callback in which a figure fails still
\* returns the KPI cards and every figure whose columns are present.
C12_ChartFailureIsolated ==
    /\ outputs.by = "visualization" =>
        /\ \A i \in DOMAIN StaticCharts :
                IF ChartFails(df, StaticColumns[i]) THEN "ERROR" \in log
                ELSE StaticCharts[i] \in outputs.saved
        /\ \A i \in DOMAIN InteractiveCharts :
                IF ChartFails(df, InteractiveColumns[i]) THEN "ERROR" \in log
                ELSE InteractiveCharts[i] \in outputs.saved
    /\ outputs.by = "dashboard_error" =>
        /\ "ERROR" \in log
        /\ \A i \in DOMAIN DashboardOutputs :
                ~ChartFails(df, FigureColumns[i]) => DashboardOutputs[i] \in outputs.returned

---------------------------------------------------------------------------
(* Properties of the dashboard. *)

\* C13: no filter-change event modifies the module-level table: while the
\* app is serving, every step leaves df as it was when the app finished
\* loading, in rows, columns and cell values.
C13_TableUnchangedByEvents ==
    [][(proc = "dashboard" /\ pc = "serving") => df' = df]_vars

\* A callback has answered with fewer rows than the table holds.
C13_Witness ==
    /\ Aggregated("dashboard")
    /\ pc = "serving"
    /\ NRows(outputs.data) < NRows(df)

\* C14: the claim rate and total claims of the metrics-summary stage equal
\* those calculate_metrics returns on the same unfiltered table.
C14_MetricsStageMatchesCalculateMetrics ==
    Aggregated("metrics") =>
        LET m == calculate_metrics(WithClaimFlag(MapNumericClaimStatus(outputs.data)))
        IN  /\ outputs.metrics.total_claims = m.total_claims
            /\ outputs.metrics.claim_rate = m.claim_rate

\* The indicator the specification gives a claim_status cell.
ClaimIndicator(x) ==
    CASE x = Str("claim") -> Num(1)
      [] x = Str("no claim") -> Num(0)
      [] OTHER -> NaN

\* C15: claim_flag (dashboard) and claim_status_num (visualization) are 1
\* exactly for "claim", 0 exactly for "no claim", and missing, never 0, for a
\* missing or any other claim_status.
C15_IndicatorMissingNeverZero ==
    /\ (proc = "dashboard" /\ "claim_flag" \in df.columns) =>
            \A i \in Positions(df) :
                Cell(df, i, "claim_flag") = ClaimIndicator(Cell(df, i, "claim_status"))
    /\ (proc = "visualization" /\ "claim_status_num" \in df.columns) =>
            \A i \in Positions(df) :
                Cell(df, i, "claim_status_num") = ClaimIndicator(Cell(df, i, "claim_status"))

\* The rows of the table whose value is in the selection for every dimension
\* with a non-empty selection.
SelectedRows(d, selections) ==
    [d EXCEPT !.rows = RowsAt(d.rows, 1,
        {i \in Positions(d) : \A dim \in FilterDims :
            selections[dim] = {} \/ Cell(d, i, dim) \in selections[dim]})]

\* C16: the response to a filter-change event depends only on the current
\* selections and the loaded table: after any sequence of events the KPIs the
\* callback returns equal calculate_metrics of the rows of the loaded table
\* that the current selections select (an empty selection selects every row).
C16_ResponseDependsOnSelectionsOnly ==
    Aggregated("dashboard") =>
        /\ outputs.data = SelectedRows(df, outputs.selections)
        /\ outputs.metrics = calculate_metrics(SelectedRows(df, outputs.selections))

\* Two dimensions hold a selection, and the selections keep some rows and
\* exclude others.
C16_Witness ==
    /\ Aggregated("dashboard")
    /\ outputs.selections["gender"] # {}
    /\ outputs.selections["driving_experience"] # {}
    /\ NRows(outputs.data) > 0
    /\ NRows(outputs.data) < NRows(df)

---------------------------------------------------------------------------
(* Properties of the pipeline. *)

Downstream == {"metrics", "visualization", "dashboard"}

\* C17: a downstream stage run from the working directory the cleaning stage
\* ran from loads the file the cleaning stage wrote there: the two paths are
\* the same, and the load does not fail.
C17_CleanedPathIsDownstreamPath ==
    (proc \in Downstream /\ Exists(cleaned_file)) =>
        /\ cleaned_data_csv = cleaned_file
        /\ exit_cause # "load_error"

\* C18: when the input lacks credit_score, annual_mileage or
\* vehicle_ownership (and holds claim_status) the cleaning stage raises no
\* error: it runs to completion and persists the cleaned table.
C18_AbsentColumnIsSkipped ==
    (proc = "cleaning" /\ pc = "exited" /\ Exists(input_file)
        /\ "claim_status" \in df.columns) =>
        /\ exit_cause = "completed"
        /\ exit_status = 0
        /\ Exists(cleaned_file)

====
